---------------------------- MODULE Spec2Model ----------------------------
(***************************************************************************)
(* Model of src/nvidia/src/lib/base_utils.c: the bottom-up merge sort      *)
(* nvMergeSort and the bit-field helpers nvBitFieldLSZero,                 *)
(* nvBitFieldMSZero, nvBitFieldTest and nvBitFieldSet.                     *)
(*                                                                         *)
(* NvU32 values.  TLC's integers are 32-bit signed, so an NvU32 x is held  *)
(* as the signed integer with the same 32 bits: x itself for x < 2^31 and  *)
(* x - 2^32 for x >= 2^31 (2^31 is held as -2147483648, 2^32 - 1 as -1).   *)
(* Add32, Sub32 and Mul32 are the NvU32 operations +, - and * modulo 2^32  *)
(* on that representation, Lt32 and Le32 the unsigned comparisons.  On     *)
(* values below 2^31 whose result is below 2^31 they are the operations of *)
(* Integers.                                                               *)
(*                                                                         *)
(* Arrays.  array and mergeArray hold the elements of the two buffers;     *)
(* for the call with n = 2^31 they hold the first MaxN elements only, a    *)
(* read past them yields an arbitrary content and a write past them is not *)
(* recorded.  The bit-field holds its first words; the words of a field of *)
(* 2^27 words that are not held are zero.                                  *)
(*                                                                         *)
(* A word of the bit-field is modelled as the set of the positions (0..31) *)
(* of its set bits, so that &, | and ~ are intersection, union and         *)
(* complement.                                                             *)
(***************************************************************************)
EXTENDS Integers, Sequences, FiniteSets

(* ------------------------------ bounds --------------------------------- *)

\* largest array length for which every content and comparator is explored
MaxN == 5

\* largest element size in bytes
MaxSize == 2

\* the count of less() calls is recorded up to this value (saturating)
CallCap == 3

\* largest number of words of a bit-field
MaxCount == 2

\* largest n of the calls explored with one array each
MaxWideN == 17

\* element contents (the bytes of one element): 0 and 1 have the same sort
\* key, 2 has a larger one
Vals == {0, 1, 2}

Sizes == 1 .. MaxSize

\* marks a scratch slot that was never written (not an element content)
Uninit == Cardinality(Vals)

VARIABLES
    n,           \* NvU32 n: number of elements
    size,        \* NvU32 size: bytes per element
    cmp,         \* the comparator passed as less
    array,       \* the n elements of array, array[k+1] is element k
    mergeArray,  \* the n element slots of tempBuffer
    m,           \* run size of the current pass
    i,           \* offset of the current pair of runs
    loMin, lo, loMax, hi, hiMax,
    dest,        \* dest - mergeArray, in bytes
    pc,          \* position in nvMergeSort
    array0,      \* history: the array as passed to the call
    passArray,   \* history: the array when the current pass began
    lessCalls,   \* history: number of calls of less so far (saturating)
    firstLess,   \* history: <<lo, hi, answer>> of the first call of less
    field,       \* pBitField: sequence of words (sets of set bit positions)
    count,       \* number of words of the bit-field
    shadow,      \* history: value last stored in each bit by nvBitFieldSet
    result       \* return value of the last bit-field query

sortVars == <<n, size, cmp, array, mergeArray, m, i, loMin, lo, loMax, hi,
              hiMax, dest, pc, array0, passArray, lessCalls, firstLess>>

bitVars == <<field, count, shadow, result>>

vars == <<sortVars, bitVars>>

(* --------------------------- NvU32 arithmetic -------------------------- *)

Half == 2 ^ 16

\* the lower and the upper 16 bits of an NvU32, each in 0 .. 2^16 - 1
Lo16(a) == a % Half

Hi16(a) == (a \div Half) % Half

\* the NvU32 with upper half h and lower half l
Pack(h, l) == IF h < 2 ^ 15 THEN h * Half + l ELSE (h - Half) * Half + l

\* a + b in NvU32
Add32(a, b) ==
    LET l == Lo16(a) + Lo16(b)
        h == Hi16(a) + Hi16(b) + l \div Half
    IN  Pack(h % Half, l % Half)

\* a - b in NvU32
Sub32(a, b) ==
    LET l == Lo16(a) - Lo16(b)
        h == Hi16(a) - Hi16(b) + l \div Half
    IN  Pack(h % Half, l % Half)

\* a * s in NvU32 for 0 <= s < 2^16, by shift and add
RECURSIVE MulSmall(_, _)
MulSmall(a, s) ==
    IF s = 0 THEN 0
    ELSE Add32(IF s % 2 = 1 THEN a ELSE 0, MulSmall(Add32(a, a), s \div 2))

\* a * b in NvU32
Mul32(a, b) ==
    IF a >= 0 /\ a < 2 ^ 15 /\ b >= 0 /\ b < 2 ^ 15 THEN a * b
    ELSE Add32(MulSmall(a, Lo16(b)), Pack(Lo16(MulSmall(a, Hi16(b))), 0))

\* a < b, a <= b, a >= b on NvU32 (unsigned)
Lt32(a, b) == IF (a >= 0) = (b >= 0) THEN a < b ELSE a >= 0

Le32(a, b) == a = b \/ Lt32(a, b)

Ge32(a, b) == ~Lt32(a, b)

\* a / 32 on NvU32
Div32By32(a) == IF a >= 0 THEN a \div 32 ELSE a \div 32 + 2 ^ 27

\* 2^31, the lowest n whose doubling leaves the range of NvU32
TwoTo31 == Add32(2 ^ 30, 2 ^ 30)

\* NV_MIN(a, b) on NvU32
NV_MIN(a, b) == IF Lt32(a, b) THEN a ELSE b

\* byte offset of element k: (k) * size, computed in NvU32
EL(k) == Mul32(k, size)

\* element slot addressed by a byte offset of less than 2^31
Slot(off) == off \div size

\* the element slots of array and mergeArray that are held
IsHeld(k) == k >= 0 /\ k < Len(array)

(* ------------------------------ comparators ---------------------------- *)

\* sort key used by the comparators that compare only a part of the element
Key(v) == v \div 2

\* comparators that define a total preorder: strict and non-strict, on the
\* whole element, on its key only (elements of different content tie) and
\* descending
ValidCmps == {"lt", "le", "klt", "kle", "gt"}

\* "any" is a comparator that answers arbitrarily on every call
Cmps == ValidCmps \cup {"any"}

Less(c, a, b) ==
    CASE c = "lt"  -> a < b
      [] c = "le"  -> a <= b
      [] c = "klt" -> Key(a) < Key(b)
      [] c = "kle" -> Key(a) <= Key(b)
      [] c = "gt"  -> a > b

\* mutation: the call passes the heads in the other order
LessOutcomesSwapped(c, a, b) == IF c = "any" THEN BOOLEAN ELSE {Less(c, b, a)}

\* mutation: the left head is taken unless the right head is less (a stable
\* merge)
LessOutcomesStable(c, a, b) == IF c = "any" THEN BOOLEAN ELSE {~Less(c, b, a)}

\* the possible answers of the call less(EL(lo), EL(hi)) on heads a and b
LessOutcomes(c, a, b) == IF c = "any" THEN BOOLEAN ELSE {Less(c, a, b)}

(* ---------------------------- memory accesses -------------------------- *)

\* values a read of the element at byte offset off of array can yield; a
\* read of an element that is not held (also one outside the array) yields
\* an arbitrary value
ReadArray(off) ==
    IF IsHeld(Slot(off)) THEN {array[Slot(off) + 1]} ELSE Vals

\* values a read of a scratch slot can yield
ReadScratch(k) ==
    IF IsHeld(k) /\ mergeArray[k + 1] # Uninit THEN {mergeArray[k + 1]}
    ELSE Vals

\* portMemCopy(dest, size, src, size): one element into the scratch buffer;
\* a write to a slot that is not held is not recorded
WriteScratch(off, v) ==
    IF IsHeld(Slot(off)) THEN [mergeArray EXCEPT ![Slot(off) + 1] = v]
    ELSE mergeArray

(* ------------------------------ bit-fields ----------------------------- *)

\* bits of an NvU32 word: sizeof(NvU32) * 8
BitsPerWord == 32

AllBits == 0 .. BitsPerWord - 1

\* ~w
Not32(w) == AllBits \ w

\* NVBIT(b): the word with only bit b set
NVBIT(b) == {b}

\* LOWESTBITIDX_32(w): index of the lowest set bit of w # 0
LOWESTBITIDX_32(w) == CHOOSE b \in w : \A c \in w : b <= c

\* HIGHESTBITIDX_32(w): index of the highest set bit of w # 0
HIGHESTBITIDX_32(w) == CHOOSE b \in w : \A c \in w : b >= c

\* pBitField[k]: the words that are not held are zero
WordAt(f, k) == IF k >= 0 /\ k < Len(f) THEN f[k + 1] ELSE {}

\* the loop of nvBitFieldLSZero from word k on
RECURSIVE LSZeroFrom(_, _, _)
LSZeroFrom(f, cnt, k) ==
    IF Lt32(k, cnt)
    THEN LET temp == Not32(WordAt(f, k))
         IN  IF temp # {}
             THEN Add32(LOWESTBITIDX_32(temp), Mul32(k, BitsPerWord))
             ELSE LSZeroFrom(f, cnt, Add32(k, 1))
    ELSE Mul32(cnt, 32)

nvBitFieldLSZero(f, cnt) == LSZeroFrom(f, cnt, 0)

\* the loop of nvBitFieldMSZero: k words were looked at, word j is next
RECURSIVE MSZeroFrom(_, _, _, _)
MSZeroFrom(f, cnt, k, j) ==
    IF Lt32(k, cnt)
    THEN LET temp == Not32(WordAt(f, j))
         IN  IF temp # {}
             THEN Add32(HIGHESTBITIDX_32(temp), Mul32(j, BitsPerWord))
             ELSE MSZeroFrom(f, cnt, Add32(k, 1), Sub32(j, 1))
    ELSE Mul32(cnt, 32)

nvBitFieldMSZero(f, cnt) == MSZeroFrom(f, cnt, 0, Sub32(cnt, 1))

nvBitFieldTest(f, cnt, bit) ==
    IF Lt32(bit, Mul32(cnt, 32))
    THEN (WordAt(f, Div32By32(bit)) \cap NVBIT(bit % 32)) # {}
    ELSE FALSE

\* the held words after nvBitFieldSet(f, cnt, bit, value)
nvBitFieldSet(f, cnt, bit, value) ==
    [k \in 1 .. Len(f) |->
        IF k - 1 = Div32By32(bit)
        THEN (f[k] \cap Not32(NVBIT(bit % 32)))
                 \cup (IF value THEN NVBIT(bit % 32) ELSE {})
        ELSE f[k]]

(* --------------------------------- Init -------------------------------- *)

\* the bit-field is not used by a call of nvMergeSort
BitInitIdle ==
    /\ field = <<>>
    /\ count = 0
    /\ shadow = <<>>
    /\ result = <<"none">>

\* words a bit-field starts with: empty, full, full but for the lowest, the
\* highest or two inner bits, and a single inner bit
StartWords ==
    {{}, AllBits, AllBits \ {0}, AllBits \ {BitsPerWord - 1},
     AllBits \ {5, 17}, {5}}

\* bit positions nvBitFieldSet is called with: the lowest and the highest
\* bit of every word
SetBits == {w * BitsPerWord + o : w \in 0 .. MaxCount - 1,
                                 o \in {0, BitsPerWord - 1}}

\* bit positions nvBitFieldTest is called with: all of the field and one
\* word past the largest field
TestBits == 0 .. (MaxCount + 1) * BitsPerWord - 1

\* nvMergeSort is not running during the bit-field operations
SortIdle ==
    /\ n = 0
    /\ size = 1
    /\ cmp = "lt"
    /\ array = <<>>
    /\ mergeArray = <<>>
    /\ m = 1
    /\ i = 0
    /\ loMin = 0 /\ lo = 0 /\ loMax = 0 /\ hi = 0 /\ hiMax = 0
    /\ dest = 0
    /\ pc = "idle"
    /\ array0 = <<>>
    /\ passArray = <<>>
    /\ lessCalls = 0
    /\ firstLess = <<>>

\* number of words of the largest bit-field: its count * 32 is 2^32
TwoTo27 == 2 ^ 27

\* every bit-field of at most MaxCount words of StartWords, and the fields
\* of 2^27 words whose first MaxCount words are of StartWords and whose
\* other words are zero
InitBits ==
    /\ \/ /\ count \in 0 .. MaxCount
          /\ field \in [1 .. count -> StartWords]
       \/ /\ count = TwoTo27
          /\ field \in [1 .. MaxCount -> StartWords]
    /\ shadow = [b \in 0 .. Len(field) * BitsPerWord - 1 |->
                    b % BitsPerWord \in field[b \div BitsPerWord + 1]]
    /\ result = <<"none">>
    /\ SortIdle

SortStart ==
    /\ mergeArray = [k \in 1 .. n |-> Uninit]
    /\ m = 1
    /\ i = 0
    /\ loMin = 0 /\ lo = 0 /\ loMax = 0 /\ hi = 0 /\ hiMax = 0
    /\ dest = 0
    /\ pc = "outer"
    /\ array0 = array
    /\ passArray = array
    /\ lessCalls = 0
    /\ firstLess = <<>>

\* every array of at most MaxN elements, every element size and comparator
\* (n * size is far below 2^32: EL multiplies in NvU32, and the buffers hold
\* n * size bytes)
Init ==
    /\ n \in 0 .. MaxN
    /\ size \in Sizes
    /\ cmp \in Cmps
    /\ array \in [1 .. n -> Vals]
    /\ SortStart
    /\ BitInitIdle

\* calls with up to MaxWideN 1-byte elements: a descending array under
\* integer comparison, an array of equal elements under the arbitrary
\* comparator
InitUpToWideN ==
    /\ n \in 0 .. MaxWideN
    /\ size = 1
    /\ cmp \in {"lt", "any"}
    /\ array = [k \in 1 .. n |->
                   IF cmp = "any" THEN 0 ELSE (n - k) % Cardinality(Vals)]
    /\ SortStart
    /\ BitInitIdle

\* the call with n = 2^31 1-byte elements, all of the same content, at the
\* end of the pass with m = 2^30, when m *= 2 has made m = 2^31.  The passes
\* m = 1 .. 2^30 take more than 2^31 steps and none of their NvU32
\* operations leaves the range: the last of them merged [0, 2^30) and
\* [2^30, 2^31) into the scratch buffer and copied 2^31 bytes back, and
\* i += 2 * m ended its inner loop with i = 2^31.
InitTwoTo31 ==
    /\ n = TwoTo31
    /\ size = 1
    /\ cmp \in Cmps
    /\ \E v \in Vals :
          /\ array = [k \in 1 .. MaxN |-> v]
          /\ \E r \in LessOutcomes(cmp, v, v) : firstLess = <<0, 1, r>>
    /\ mergeArray = array
    /\ m = TwoTo31
    /\ i = TwoTo31
    /\ loMin = 0
    /\ lo = 2 ^ 30 /\ loMax = 2 ^ 30
    /\ hi = TwoTo31 /\ hiMax = TwoTo31
    /\ dest = TwoTo31
    /\ pc = "outer"
    /\ array0 = array
    /\ passArray = array
    /\ lessCalls = CallCap
    /\ BitInitIdle

InitWide == InitUpToWideN \/ InitTwoTo31

(* ------------------------------ nvMergeSort ---------------------------- *)

\* mutation: the inner loop also runs when no second run is left
InnerCondInclusive == Le32(i, Sub32(n, m))

\* i < (n - m): a second run begins before the end of the array
InnerCond == Lt32(i, Sub32(n, m))

\* mutation: the end of the right run is not clamped to n
RunEndUnclamped(ii, mm) == Add32(ii, Mul32(2, mm))

\* NV_MIN(n, i + 2 * m): the end of the right run
RunEnd(ii, mm) == NV_MIN(n, Add32(ii, Mul32(2, mm)))

\* for(m = 1; m <= n; ...): test of the outer loop, i = 0 on entry of a pass
OuterTest ==
    /\ pc = "outer"
    /\ IF Le32(m, n)
       THEN /\ i' = 0
            /\ pc' = "inner"
            /\ passArray' = array
       ELSE /\ pc' = "done"
            /\ UNCHANGED <<i, passArray>>
    /\ UNCHANGED <<n, size, cmp, array, mergeArray, m, loMin, lo, loMax, hi,
                   hiMax, dest, array0, lessCalls, firstLess, bitVars>>

\* for(...; i < (n - m); ...): test of the inner loop; on exit m *= 2
InnerTest ==
    /\ pc = "inner"
    /\ IF InnerCond
       THEN /\ loMin' = i
            /\ lo' = i
            /\ loMax' = Add32(i, m)
            /\ hi' = Add32(i, m)
            /\ hiMax' = RunEnd(i, m)
            /\ dest' = 0
            /\ pc' = "merge"
            /\ m' = m
       ELSE /\ m' = Mul32(m, 2)
            /\ pc' = "outer"
            /\ UNCHANGED <<loMin, lo, loMax, hi, hiMax, dest>>
    /\ UNCHANGED <<n, size, cmp, array, mergeArray, i, array0, passArray,
                   lessCalls, firstLess, bitVars>>

\* one iteration of while(1): compare the heads, copy one, test for break
MergeStep ==
    /\ pc = "merge"
    /\ \E a \in ReadArray(EL(lo)), b \in ReadArray(EL(hi)) :
       \E r \in LessOutcomes(cmp, a, b) :
          /\ IF r
             THEN /\ mergeArray' = WriteScratch(dest, a)
                  /\ lo' = Add32(lo, 1)
                  /\ hi' = hi
                  /\ pc' = IF Ge32(Add32(lo, 1), loMax) THEN "drainLo"
                           ELSE "merge"
             ELSE /\ mergeArray' = WriteScratch(dest, b)
                  /\ hi' = Add32(hi, 1)
                  /\ lo' = lo
                  /\ pc' = IF Ge32(Add32(hi, 1), hiMax) THEN "drainLo"
                           ELSE "merge"
          /\ firstLess' = IF lessCalls = 0
                          THEN <<Slot(EL(lo)), Slot(EL(hi)), r>>
                          ELSE firstLess
    /\ dest' = Add32(dest, size)
    /\ lessCalls' = IF lessCalls < CallCap THEN lessCalls + 1 ELSE lessCalls
    /\ UNCHANGED <<n, size, cmp, array, m, i, loMin, loMax, hiMax, array0,
                   passArray, bitVars>>

\* while (lo < loMax): copy the rest of the left run
DrainLo ==
    /\ pc = "drainLo"
    /\ IF Lt32(lo, loMax)
       THEN /\ \E a \in ReadArray(EL(lo)) : mergeArray' = WriteScratch(dest, a)
            /\ dest' = Add32(dest, size)
            /\ lo' = Add32(lo, 1)
            /\ pc' = pc
       ELSE /\ pc' = "drainHi"
            /\ UNCHANGED <<mergeArray, dest, lo>>
    /\ UNCHANGED <<n, size, cmp, array, m, i, loMin, loMax, hi, hiMax, array0,
                   passArray, lessCalls, firstLess, bitVars>>

\* while (hi < hiMax): copy the rest of the right run
DrainHi ==
    /\ pc = "drainHi"
    /\ IF Lt32(hi, hiMax)
       THEN /\ \E b \in ReadArray(EL(hi)) : mergeArray' = WriteScratch(dest, b)
            /\ dest' = Add32(dest, size)
            /\ hi' = Add32(hi, 1)
            /\ pc' = pc
       ELSE /\ pc' = "copyBack"
            /\ UNCHANGED <<mergeArray, dest, hi>>
    /\ UNCHANGED <<n, size, cmp, array, m, i, loMin, lo, loMax, hiMax, array0,
                   passArray, lessCalls, firstLess, bitVars>>

\* mutation: the copy back is one element short
MergedLenShort == Slot(dest) - 1

\* number of elements the copy back moves: (NvU32)(dest - mergeArray) bytes
MergedLen == Slot(dest)

\* mutation: the merged data is copied to the start of the array
CopiedBackAtStart(src) ==
    [k \in 1 .. Len(array) |->
        IF k - 1 < MergedLen THEN src[k] ELSE array[k]]

\* the held part of the array after portMemCopy(EL(loMin), len, mergeArray,
\* len) with src the held part of mergeArray
CopiedBack(src) ==
    [k \in 1 .. Len(array) |->
        IF /\ k - 1 >= Slot(EL(loMin))
           /\ k - 1 - Slot(EL(loMin)) < MergedLen
        THEN src[k - Slot(EL(loMin))]
        ELSE array[k]]

\* copy the merged data back over the array, then i += 2 * m
CopyBack ==
    /\ pc = "copyBack"
    /\ IF \A k \in 1 .. Len(array) :
             k <= MergedLen => mergeArray[k] # Uninit
       THEN array' = CopiedBack(mergeArray)
       ELSE \E src \in [1 .. Len(array) -> Vals] :
               /\ \A k \in 1 .. Len(array) : src[k] \in ReadScratch(k - 1)
               /\ array' = CopiedBack(src)
    /\ i' = Add32(i, Mul32(2, m))
    /\ pc' = "inner"
    /\ UNCHANGED <<n, size, cmp, mergeArray, m, loMin, lo, loMax, hi, hiMax,
                   dest, array0, passArray, lessCalls, firstLess, bitVars>>

SortNext ==
    \/ OuterTest
    \/ InnerTest
    \/ MergeStep
    \/ DrainLo
    \/ DrainHi
    \/ CopyBack

Spec == Init /\ [][SortNext]_vars

SpecWide == InitWide /\ [][SortNext]_vars

\* the call runs on: no step of nvMergeSort waits for anything
FairSpecWide == InitWide /\ [][SortNext]_vars /\ WF_vars(SortNext)


(* ------------------------- bit-field operations ------------------------ *)

\* a call nvBitFieldSet(field, count, bit, value) that meets its
\* NV_ASSERT(bit < count * 32)
BitSet ==
    \E bit \in SetBits, value \in BOOLEAN :
        /\ Lt32(bit, Mul32(count, 32))
        /\ field' = nvBitFieldSet(field, count, bit, value)
        /\ shadow' = [shadow EXCEPT ![bit] = value]
        /\ result' = <<"set">>
        /\ UNCHANGED <<count, sortVars>>

\* a call nvBitFieldTest(field, count, bit)
BitTest ==
    \E bit \in TestBits :
        /\ result' = <<"test", bit, nvBitFieldTest(field, count, bit)>>
        /\ UNCHANGED <<field, count, shadow, sortVars>>

\* a call nvBitFieldLSZero(field, count)
BitLSZero ==
    /\ result' = <<"lsz", nvBitFieldLSZero(field, count)>>
    /\ UNCHANGED <<field, count, shadow, sortVars>>

\* a call nvBitFieldMSZero(field, count)
BitMSZero ==
    /\ result' = <<"msz", nvBitFieldMSZero(field, count)>>
    /\ UNCHANGED <<field, count, shadow, sortVars>>

BitNext ==
    \/ BitSet
    \/ BitTest
    \/ BitLSZero
    \/ BitMSZero

SpecBits == InitBits /\ [][BitNext]_vars

(* ------------------------- properties of the sort ---------------------- *)

Done == pc = "done"

\* b is placed before a although a is strictly before b in the order
StrictlyAfter(c, b, a) == Less(c, a, b) /\ ~Less(c, b, a)

\* ascending order: no adjacent pair is strictly out of order
Ascending(c, s) ==
    \A k \in 1 .. Len(s) - 1 : ~StrictlyAfter(c, s[k], s[k + 1])

\* number of elements of s with content v
Occurrences(s, v) == Cardinality({k \in 1 .. Len(s) : s[k] = v})

Swapped(s) == <<s[2], s[1]>>

\* C1 (as stated): when nvMergeSort returns under a valid comparator,
\* less(a[i+1], a[i]) is false for every adjacent pair of the array.
C1_AdjacentNotLess ==
    (Done /\ cmp \in ValidCmps) =>
        \A k \in 1 .. n - 1 : ~Less(cmp, array[k + 1], array[k])

\* C1 (amended): when nvMergeSort returns under a valid comparator, no
\* adjacent pair is strictly out of order: less(a[i+1], a[i]) is false or
\* less(a[i], a[i+1]) is true; under a strict comparator less(a[i+1], a[i])
\* is false.
C1_SortedOnReturn ==
    (Done /\ cmp \in ValidCmps) =>
        /\ Ascending(cmp, array)
        /\ cmp \in {"lt", "klt", "gt"} =>
              \A k \in 1 .. n - 1 : ~Less(cmp, array[k + 1], array[k])

\* an array of MaxN elements (not a power of two) that was out of order has
\* been sorted and returned
C1_Witness ==
    /\ Done
    /\ n = MaxN
    /\ cmp = "lt"
    /\ ~Ascending(cmp, array0)
    /\ array # array0

\* C2: when nvMergeSort returns, under any comparator, every element content
\* occurs in the array as often as it did before the call.
C2_Permutation ==
    Done => \A v \in Vals : Occurrences(array, v) = Occurrences(array0, v)

C2_Witness ==
    /\ Done
    /\ n = MaxN
    /\ cmp = "any"
    /\ array # array0
    /\ \E v \in Vals : Occurrences(array0, v) >= 2

\* C3 (as stated): nvMergeSort terminates for every n of the counter type:
\* the outer loop ends with m > n.
C3_Terminates == <>Done

\* C4 (as stated): for any comparator and any n, less is only called with
\* lo < loMax and hi < hiMax <= n, every array read and scratch write is at
\* an index in [0, n), and each copy back covers exactly the two runs merged.
C4_InBounds ==
    /\ pc = "merge" =>
          /\ Lt32(lo, loMax) /\ Lt32(hi, hiMax) /\ Le32(hiMax, n)
          /\ Lt32(Slot(EL(lo)), n) /\ Lt32(Slot(EL(hi)), n)
          /\ Lt32(Slot(dest), n)
    /\ (pc = "drainLo" /\ Lt32(lo, loMax)) =>
          (Lt32(Slot(EL(lo)), n) /\ Lt32(Slot(dest), n))
    /\ (pc = "drainHi" /\ Lt32(hi, hiMax)) =>
          (Lt32(Slot(EL(hi)), n) /\ Lt32(Slot(dest), n))
    /\ pc = "copyBack" =>
          /\ Le32(Add32(Slot(EL(loMin)), MergedLen), n)
          /\ MergedLen = Sub32(hiMax, loMin)
          /\ lo = loMax /\ hi = hiMax

\* C5 (as stated): sorting an array that is already in ascending order under
\* a valid comparator leaves it byte-for-byte identical.
C5_SortedIsFixedPoint ==
    (/\ Done
     /\ cmp \in ValidCmps
     /\ \A k \in 1 .. n - 1 : ~Less(cmp, array0[k + 1], array0[k]))
        => array = array0

\* less orders any two elements of s that differ in content, one way or both
NoLooseTie(c, s) ==
    \A j, k \in 1 .. Len(s) :
        s[j] # s[k] => (Less(c, s[j], s[k]) \/ Less(c, s[k], s[j]))

\* C5 (amended): sorting an array that is already in ascending order under a
\* valid comparator leaves it byte-for-byte identical provided less(x, y) or
\* less(y, x) holds for any two of its elements with different content.
C5_FixedPointWithoutLooseTies ==
    (/\ Done
     /\ cmp \in ValidCmps
     /\ Ascending(cmp, array0)
     /\ NoLooseTie(cmp, array0))
        => array = array0

\* an ascending array with repeated and with distinct elements was sorted
C5_Witness ==
    /\ Done
    /\ n = MaxN
    /\ cmp \in {"lt", "kle"}
    /\ Ascending(cmp, array0)
    /\ NoLooseTie(cmp, array0)
    /\ array0[1] # array0[n]
    /\ lessCalls = CallCap

\* C6: for n <= 1 the array and the scratch buffer are never changed and
\* less is never called; for n = 2 less is called once, as less(a[0], a[1]),
\* and the array is returned as it was if the answer was true and with its
\* two elements swapped otherwise.
C6_EdgeCases ==
    /\ n <= 1 =>
          /\ array = array0
          /\ lessCalls = 0
          /\ \A k \in 1 .. n : mergeArray[k] = Uninit
    /\ (n = 2 /\ Done) =>
          /\ lessCalls = 1
          /\ firstLess[1] = 0 /\ firstLess[2] = 1
          /\ cmp \in ValidCmps =>
                firstLess[3] = Less(cmp, array0[1], array0[2])
          /\ array = IF firstLess[3] THEN array0 ELSE Swapped(array0)

\* two different elements were compared once and swapped
C6_Witness ==
    /\ n = 2
    /\ Done
    /\ array0[1] # array0[2]
    /\ array = Swapped(array0)

\* C9: a step of the merge loop emits the head of the left run if
\* less(left, right) is true and the head of the right run otherwise, so on
\* a tie (neither is less than the other) the right head goes first.
C9_TieBreak ==
    [][(pc = "merge" /\ cmp \in ValidCmps) =>
          LET left  == array[lo + 1]
              right == array[hi + 1]
          IN  /\ Less(cmp, left, right) =>
                    /\ mergeArray'[Slot(dest) + 1] = left
                    /\ lo' = lo + 1 /\ hi' = hi
              /\ ~Less(cmp, left, right) =>
                    /\ mergeArray'[Slot(dest) + 1] = right
                    /\ hi' = hi + 1 /\ lo' = lo
              /\ (~Less(cmp, left, right) /\ ~Less(cmp, right, left)) =>
                    hi' = hi + 1]_vars

\* two elements that compare equal were returned in the opposite order
C9_Witness ==
    /\ Done
    /\ n = 2
    /\ cmp = "klt"
    /\ array0 = <<0, 1>>
    /\ array = <<1, 0>>

\* every aligned block of b elements of s is in ascending order
BlocksAscending(c, s, b) ==
    \A k \in 1 .. Len(s) - 1 :
        ((k - 1) \div b = k \div b) => ~StrictlyAfter(c, s[k], s[k + 1])

\* the first offset t, a multiple of 2m, with t + m >= n
TailStart ==
    CHOOSE t \in 0 .. n + 2 * m :
        /\ t % (2 * m) = 0
        /\ t + m >= n
        /\ \A u \in 0 .. t - 1 : ~(u % (2 * m) = 0 /\ u + m >= n)

InPass == pc \in {"inner", "merge", "drainLo", "drainHi", "copyBack"}

\* C10: under a valid comparator, when the pass with run size m begins every
\* aligned block of m elements is ascending; during the pass the tail from
\* the first offset i (a multiple of 2m) with i + m >= n is as it was when
\* the pass began; when the pass ends every aligned block of 2m elements is
\* ascending.
C10_PassInvariant ==
    cmp \in ValidCmps =>
        /\ (pc = "inner" /\ i = 0) => BlocksAscending(cmp, array, m)
        /\ InPass =>
              \A k \in 1 .. n : k - 1 >= TailStart => array[k] = passArray[k]
        /\ (pc = "inner" /\ ~InnerCond) =>
              BlocksAscending(cmp, array, 2 * m)

\* the pass with m = 2 over 5 elements has ended: the first four elements
\* were merged and differ from the start of the pass, the tail is untouched
C10_Witness ==
    /\ cmp = "lt"
    /\ n = 5
    /\ m = 2
    /\ pc = "inner"
    /\ ~InnerCond
    /\ array # passArray
    /\ ~Ascending(cmp, array)

(* ---------------------- properties of the bit-field ------------------- *)

\* the held positions X with bit X%32 of word X/32 zero
HeldZeroBits ==
    {X \in 0 .. Len(field) * 32 - 1 : X % 32 \notin field[X \div 32 + 1]}

\* the field has words that are not held (they are zero)
HasUnheld == Len(field) < count

EveryBitSet == HeldZeroBits = {} /\ ~HasUnheld

\* the NvU32 that is the index of bit o of word w, w < 2^27
BitIndex(w, o) == IF w < 2 ^ 26 THEN w * 32 + o ELSE (w - 2 ^ 27) * 32 + o

\* count*32 as a value of the return type NvU32
NotFound == BitIndex(count % (2 ^ 27), 0)

LowestZero ==
    IF HeldZeroBits # {}
    THEN CHOOSE X \in HeldZeroBits : \A Y \in HeldZeroBits : X <= Y
    ELSE BitIndex(Len(field), 0)

HighestZero ==
    IF HasUnheld THEN BitIndex(count - 1, 31)
    ELSE CHOOSE X \in HeldZeroBits : \A Y \in HeldZeroBits : X >= Y

\* C7 (as stated): nvBitFieldLSZero returns the smallest and
\* nvBitFieldMSZero the largest X in [0, count*32) whose bit is zero, both
\* return count*32 exactly when every bit is set (also for count = 0), and
\* neither changes the bit-field.
C7_ZeroBitSearch ==
    [][/\ result'[1] = "lsz" =>
            /\ field' = field
            /\ result'[2] = NotFound <=> EveryBitSet
            /\ ~EveryBitSet => result'[2] = LowestZero
       /\ result'[1] = "msz" =>
            /\ field' = field
            /\ result'[2] = NotFound <=> EveryBitSet
            /\ ~EveryBitSet => result'[2] = HighestZero]_vars

\* C8 (as stated): nvBitFieldTest(field, count, j) is the value of the most
\* recent nvBitFieldSet on bit j, or the initial value of bit j if there was
\* none, for every bit j of the field, and false for every j >= count*32.
\* (shadow holds that value for the bits of the held words; the other words
\* of the field are zero and never set)
C8_TestReadsLastSet ==
    [][result'[1] = "test" =>
          LET j == result'[2]
          IN  result'[3] = IF j \div 32 < Len(field) THEN shadow[j]
                           ELSE FALSE]_vars

=============================================================================
